---------------------------- MODULE Spec2Model ----------------------------
(***************************************************************************)
(* Model of the two entry points of kokoro-tts:                            *)
(*                                                                         *)
(*   app.py               module-level construction of the KPipeline,      *)
(*                        generate_speech(text) and the gradio launch;     *)
(*   download_weights.py  token resolution and download_model_weights().   *)
(*                                                                         *)
(* KPipeline, gradio, python-dotenv and huggingface_hub are libraries, not *)
(* code of the repository.  They appear here only through what the         *)
(* repository's code observes of them: a call returns or raises.  Which of *)
(* the two happens is chosen nondeterministically.                         *)
(*                                                                         *)
(* An optional Python value is a sequence: <<>> is None (or "not bound"),  *)
(* <<v>> is the value v.                                                   *)
(***************************************************************************)
EXTENDS Naturals, Sequences, FiniteSets

VARIABLES
    \* ---- app.py ----
    appState,     \* "Uninitialized" | "Ready" | "Serving" | "Exited"
    pipeline,     \* the module global `pipeline`
    exitStatus,   \* status passed to sys.exit, <<>> while the process runs
    console,      \* lines printed by app.py, in order
    req,          \* the invocations of generate_speech, by arrival number
    \* ---- download_weights.py ----
    fpc,          \* position of the script
    argToken,     \* --token as given on the command line
    dotenvFile,   \* the contents of .env
    procEnv,      \* the environment the process was started with
    environ,      \* os.environ
    token,        \* the local `token` of __main__, then the parameter
    attempts,     \* the calls of snapshot_download, each with its token
    weights,      \* the state of ./weights
    fconsole,     \* lines printed by download_weights.py, in order
    fexit         \* exit status of the script, <<>> while it runs

appVars == <<appState, pipeline, exitStatus, console, req>>
fetchVars == <<fpc, argToken, dotenvFile, procEnv, environ, token, attempts,
               weights, fconsole, fexit>>
vars == <<appState, pipeline, exitStatus, console, req,
          fpc, argToken, dotenvFile, procEnv, environ, token, attempts,
          weights, fconsole, fexit>>

None == <<>>
Some(v) == <<v>>

---------------------------------------------------------------------------
(* Bounds                                                                  *)

\* Longest input text, in chunks.
MaxLen == 2
\* Number of invocations of generate_speech in one run.
MaxRequests == 2

---------------------------------------------------------------------------
(* app.py                                                                  *)

\* An input text is a sequence of chunks; the pipeline yields one segment
\* per chunk.  The empty text has none.
Chars == {"a", "b"}
Texts == UNION {[1..n -> Chars] : n \in 0..MaxLen}

Requests == 1..MaxRequests

\* `return 24000, audio`
SampleRate == 24000
\* `sys.exit(1)`
ExitFailure == 1

\* KPipeline(lang_code='en')
KPipeline(lang_code) == [lang_code |-> lang_code]

Amplitude(c) == IF c = "a" THEN 1 ELSE 2

\* What the generator returned by pipeline(text, voice, speed) yields: a
\* finite sequence of (graphemes, phonemes, audio) results.
Segments(text, voice, speed) ==
    [i \in 1..Len(text) |->
        [graphemes |-> <<text[i]>>, phonemes |-> <<voice, text[i]>>,
         audio |-> <<Amplitude(text[i]), speed>>]]

\* The exceptions generate_speech can see, with their str().
StopIteration == [type |-> "StopIteration", str |-> ""]
PipelineError == [type |-> "RuntimeError", str |-> "model failure"]
\* Raised by line 37 when the global `pipeline` was never bound.
NameError == [type |-> "NameError", str |-> "name 'pipeline' is not defined"]

NoRequest ==
    [pc |-> "idle", text |-> <<>>, generator |-> None, result |-> None,
     error |-> None, priorFailures |-> 0]

\* `return 22050, audio`: the rate of another model.
Return_WrongRate(audio) == [sample_rate |-> 22050, audio |-> audio]

\* Line 39: return 24000, audio
Return(audio) == [sample_rate |-> SampleRate, audio |-> audio]

\* Lines `print(f"Error generating speech: {e}")` has written so far.
ErrorLines == {i \in 1..Len(console) : console[i][1] = "Error generating speech: "}

\* An except clause that also drops the global pipeline.
Failed_DropsPipeline(r, e) ==
    /\ console' = Append(console, <<"Error generating speech: ", e.str>>)
    /\ req' = [req EXCEPT ![r].pc = "raised",
                          ![r].error = Some(<<"Failed to generate speech: ", e.str>>)]
    /\ pipeline' = None
    /\ UNCHANGED <<appState, exitStatus>>

\* No except clause: the exception leaves generate_speech as it is.
Failed_Uncaught(r, e) ==
    /\ req' = [req EXCEPT ![r].pc = "raised", ![r].error = Some(<<e.type, e.str>>)]
    /\ UNCHANGED <<appState, pipeline, exitStatus, console>>

\* The except clause of generate_speech: print, then raise gr.Error.
Failed(r, e) ==
    /\ console' = Append(console, <<"Error generating speech: ", e.str>>)
    /\ req' = [req EXCEPT ![r].pc = "raised",
                          ![r].error = Some(<<"Failed to generate speech: ", e.str>>)]
    /\ UNCHANGED <<appState, pipeline, exitStatus>>

\* An except clause at line 21 that prints and goes on.
LoadPipeline_NoExit ==
    /\ appState = "Uninitialized"
    /\ \E ok \in BOOLEAN :
        /\ pipeline' = IF ok THEN Some([lang_code |-> "en"]) ELSE pipeline
        /\ console' = console \o <<<<"Using device: ", "cpu">>,
                                   <<"Loading Kokoro TTS model...", "">>,
                                   IF ok THEN <<"Model loaded successfully!", "">>
                                         ELSE <<"Error loading model: ", "model failure">>>>
    /\ appState' = "Ready"
    /\ UNCHANGED <<exitStatus, req>>
    /\ UNCHANGED fetchVars

\* Lines 12-23: the device line, then the try block around KPipeline.
LoadPipeline ==
    /\ appState = "Uninitialized"
    /\ \E ok \in BOOLEAN :
        IF ok
        THEN /\ pipeline' = Some(KPipeline("en"))
             /\ console' = console \o <<<<"Using device: ", "cpu">>,
                                        <<"Loading Kokoro TTS model...", "">>,
                                        <<"Model loaded successfully!", "">>>>
             /\ appState' = "Ready"
             /\ UNCHANGED exitStatus
        ELSE /\ console' = console \o <<<<"Using device: ", "cpu">>,
                                        <<"Loading Kokoro TTS model...", "">>,
                                        <<"Error loading model: ", PipelineError.str>>>>
             /\ exitStatus' = Some(ExitFailure)
             /\ appState' = "Exited"
             /\ UNCHANGED pipeline
    /\ UNCHANGED <<req>>
    /\ UNCHANGED fetchVars

\* Lines 44-60: the Interface is built and launched.
Launch ==
    /\ appState = "Ready"
    /\ appState' = "Serving"
    /\ UNCHANGED <<pipeline, exitStatus, console, req>>
    /\ UNCHANGED fetchVars

\* gradio calls fn=generate_speech with the text of the form.
Submit(r, text) ==
    /\ appState = "Serving"
    /\ req[r].pc = "idle"
    /\ \A q \in Requests : q < r => req[q].pc # "idle"
    /\ req' = [req EXCEPT ![r] = [NoRequest EXCEPT !.pc = "entered", !.text = text,
                                      !.priorFailures = Cardinality(ErrorLines)]]
    /\ UNCHANGED <<appState, pipeline, exitStatus, console>>
    /\ UNCHANGED fetchVars

\* Line 37: generator = pipeline(text, voice='af_heart', speed=1)
CallPipeline(r) ==
    /\ req[r].pc = "entered"
    /\ IF pipeline = None
       THEN Failed(r, NameError)
       ELSE \E raises \in BOOLEAN :
               IF raises
               THEN Failed(r, PipelineError)
               ELSE /\ req' = [req EXCEPT ![r].pc = "called",
                                  ![r].generator =
                                      Some([segments |-> Segments(req[r].text, "af_heart", 1),
                                            consumed |-> 0])]
                    /\ UNCHANGED <<appState, pipeline, exitStatus, console>>
    /\ UNCHANGED fetchVars

\* `for _, _, audio in generator: pass`: the last segment, not the first.
NextSegment_Drain(r) ==
    /\ req[r].pc = "called"
    /\ LET g == req[r].generator[1] IN
       \E raises \in BOOLEAN :
          IF raises
          THEN Failed(r, PipelineError)
          ELSE IF Len(g.segments) = 0
               THEN Failed(r, StopIteration)
               ELSE /\ req' = [req EXCEPT
                                 ![r].pc = "returned",
                                 ![r].generator =
                                     Some([g EXCEPT !.consumed = Len(g.segments)]),
                                 ![r].result =
                                     Some(Return(g.segments[Len(g.segments)].audio))]
                    /\ UNCHANGED <<appState, pipeline, exitStatus, console>>
    /\ UNCHANGED fetchVars

\* `global generator`: line 38 reads whichever generator line 37 bound last,
\* in any invocation.
NextSegment_SharedGenerator(r) ==
    /\ req[r].pc = "called"
    /\ \E q \in Requests :
        /\ req[q].generator # None
        /\ LET g == req[q].generator[1] IN
           \E raises \in BOOLEAN :
              IF raises
              THEN Failed(r, PipelineError)
              ELSE IF g.consumed >= Len(g.segments)
                   THEN Failed(r, StopIteration)
                   ELSE /\ req' = [req EXCEPT
                                     ![q].generator = Some([g EXCEPT !.consumed = @ + 1]),
                                     ![r].pc = "returned",
                                     ![r].result =
                                         Some(Return(g.segments[g.consumed + 1].audio))]
                        /\ UNCHANGED <<appState, pipeline, exitStatus, console>>
    /\ UNCHANGED fetchVars

\* `next(generator, (None, None, []))`: an exhausted generator gives a default.
NextSegment_Default(r) ==
    /\ req[r].pc = "called"
    /\ LET g == req[r].generator[1] IN
       \E raises \in BOOLEAN :
          IF raises
          THEN Failed(r, PipelineError)
          ELSE /\ req' = [req EXCEPT
                            ![r].pc = "returned",
                            ![r].generator =
                                Some([g EXCEPT !.consumed =
                                        IF @ < Len(g.segments) THEN @ + 1 ELSE @]),
                            ![r].result =
                                Some(Return(IF g.consumed < Len(g.segments)
                                            THEN g.segments[g.consumed + 1].audio
                                            ELSE <<>>))]
               /\ UNCHANGED <<appState, pipeline, exitStatus, console>>
    /\ UNCHANGED fetchVars

\* Lines 38-39: _, _, audio = next(generator); return 24000, audio
NextSegment(r) ==
    /\ req[r].pc = "called"
    /\ LET g == req[r].generator[1] IN
       \E raises \in BOOLEAN :
          IF raises
          THEN Failed(r, PipelineError)
          ELSE IF g.consumed >= Len(g.segments)
               THEN Failed(r, StopIteration)
               ELSE /\ req' = [req EXCEPT
                                 ![r].pc = "returned",
                                 ![r].generator = Some([g EXCEPT !.consumed = @ + 1]),
                                 ![r].result =
                                     Some(Return(g.segments[g.consumed + 1].audio))]
                    /\ UNCHANGED <<appState, pipeline, exitStatus, console>>
    /\ UNCHANGED fetchVars

AppInit ==
    /\ appState = "Uninitialized"
    /\ pipeline = None
    /\ exitStatus = None
    /\ console = <<>>
    /\ req = [r \in Requests |-> NoRequest]

---------------------------------------------------------------------------
(* download_weights.py                                                     *)

\* The two names line 40 reads from os.environ.
HF_TOKEN == "HUGGING_FACE_TOKEN"
HF_HUB_TOKEN == "HUGGING_FACE_HUB_TOKEN"
EnvNames == {HF_TOKEN, HF_HUB_TOKEN}

\* Token strings; "" is the empty string (`--token ""`, `NAME=` in .env or
\* in the environment).
Tokens == {"", "hf_A", "hf_B", "hf_C"}
OptToken == {None} \cup {Some(t) : t \in Tokens}

\* Python truth of an optional string: None and "" are false.
Truthy(v) == v # None /\ v[1] # ""

\* Python's `a or b`.
Or(a, b) == IF Truthy(a) THEN a ELSE b

\* os.environ.get(name)
Get(env, name) == env[name]

\* load_dotenv() with its default override=False: a name of .env is set in
\* os.environ only when os.environ does not hold that name already.
LoadDotenvInto(env, file) ==
    [k \in EnvNames |-> IF env[k] # None THEN env[k] ELSE file[k]]

\* The `or` chain with the environment first.
ResolvedToken_EnvFirst(args_token, env) ==
    Or(Or(Get(env, HF_TOKEN), Get(env, HF_HUB_TOKEN)), args_token)

\* Line 40.
ResolvedToken(args_token, env) ==
    Or(Or(args_token, Get(env, HF_TOKEN)), Get(env, HF_HUB_TOKEN))

\* Line 31: load_dotenv()
LoadDotenv ==
    /\ fpc = "start"
    /\ environ' = LoadDotenvInto(environ, dotenvFile)
    /\ fpc' = "env_loaded"
    /\ UNCHANGED <<argToken, dotenvFile, procEnv, token, attempts, weights,
                   fconsole, fexit>>
    /\ UNCHANGED appVars

\* Lines 33-40: parse_args, then the `or` chain.
ResolveToken ==
    /\ fpc = "env_loaded"
    /\ token' = ResolvedToken(argToken, environ)
    /\ fpc' = "resolved"
    /\ UNCHANGED <<argToken, dotenvFile, procEnv, environ, attempts, weights,
                   fconsole, fexit>>
    /\ UNCHANGED appVars

\* A second call of snapshot_download in the except clause.
download_model_weights_Retry ==
    /\ fpc = "resolved"
    /\ \E ok \in BOOLEAN, ok2 \in BOOLEAN :
        /\ attempts' = IF ok THEN Append(attempts, [token |-> token, ok |-> ok])
                       ELSE attempts \o <<[token |-> token, ok |-> ok],
                                          [token |-> token, ok |-> ok2]>>
        /\ weights' = IF ok \/ ok2 THEN "complete" ELSE "partial"
        /\ fconsole' = fconsole \o
              <<"Downloading Kokoro TTS model weights from hexgrad/Kokoro-82M...",
                IF ok \/ ok2 THEN "Model weights downloaded successfully!"
                             ELSE "Error downloading model weights: ">>
    /\ fpc' = "returned"
    /\ UNCHANGED <<argToken, dotenvFile, procEnv, environ, token, fexit>>
    /\ UNCHANGED appVars

\* Lines 6-27 (called at line 42): one call of snapshot_download inside
\* try/except Exception.  A failed transfer may leave files behind.
download_model_weights ==
    /\ fpc = "resolved"
    /\ \E ok \in BOOLEAN :
        /\ attempts' = Append(attempts, [token |-> token, ok |-> ok])
        /\ IF ok
           THEN /\ weights' = "complete"
                /\ fconsole' = fconsole \o
                     <<"Downloading Kokoro TTS model weights from hexgrad/Kokoro-82M...",
                       "Model weights downloaded successfully!">>
           ELSE /\ weights' \in {weights, "partial"}
                /\ fconsole' = fconsole \o
                     <<"Downloading Kokoro TTS model weights from hexgrad/Kokoro-82M...",
                       "Error downloading model weights: ",
                       "Please make sure your Hugging Face token is correct.",
                       "You can get a token from: https://huggingface.co/settings/tokens">>
    /\ fpc' = "returned"
    /\ UNCHANGED <<argToken, dotenvFile, procEnv, environ, token, fexit>>
    /\ UNCHANGED appVars

\* The script runs off its last line: the interpreter exits with status 0.
ScriptEnd ==
    /\ fpc = "returned"
    /\ fpc' = "done"
    /\ fexit' = Some(0)
    /\ UNCHANGED <<argToken, dotenvFile, procEnv, environ, token, attempts,
                   weights, fconsole>>
    /\ UNCHANGED appVars

\* The script before its first line, for any command line, .env and
\* process environment.
FetchInit ==
    /\ fpc = "start"
    /\ argToken \in OptToken
    /\ dotenvFile \in [EnvNames -> OptToken]
    /\ procEnv \in [EnvNames -> OptToken]
    /\ environ = procEnv
    /\ token = None
    /\ attempts = <<>>
    /\ weights \in {"absent", "complete"}
    /\ fconsole = <<>>
    /\ fexit = None

\* The script not being run.
FetchIdle ==
    /\ fpc = "start"
    /\ argToken = None
    /\ dotenvFile = [k \in EnvNames |-> None]
    /\ procEnv = [k \in EnvNames |-> None]
    /\ environ = procEnv
    /\ token = None
    /\ attempts = <<>>
    /\ weights = "absent"
    /\ fconsole = <<>>
    /\ fexit = None

Init == AppInit /\ FetchIdle

Next ==
    \/ LoadPipeline
    \/ Launch
    \/ \E r \in Requests, text \in Texts : Submit(r, text)
    \/ \E r \in Requests : CallPipeline(r)
    \/ \E r \in Requests : NextSegment(r)

Spec == Init /\ [][Next]_vars

FetchNext ==
    \/ LoadDotenv
    \/ ResolveToken
    \/ download_model_weights
    \/ ScriptEnd

\* download_weights.py run on its own: app.py is not started.
InitFetch == AppInit /\ FetchInit

SpecFetch == InitFetch /\ [][FetchNext]_vars

---------------------------------------------------------------------------
(* Properties                                                              *)

Entered(r) == req[r].pc # "idle"
Finished(r) == req[r].pc \in {"returned", "raised"}
LoadFailed == \E i \in 1..Len(console) : console[i][1] = "Error loading model: "
Logged(line) == \E i \in 1..Len(console) : console[i] = line
\* The first segment the pipeline yields for a text, when it yields one.
FirstAudio(text) == Segments(text, "af_heart", 1)[1].audio

\* C1: a failed construction of the pipeline ends the process with a
\* non-zero status and no request is ever entered; a request is entered only
\* once the pipeline was constructed and the interface launched.
C1_StartupGate ==
    /\ LoadFailed =>
          /\ appState = "Exited"
          /\ exitStatus # None /\ exitStatus[1] # 0
          /\ \A r \in Requests : ~Entered(r)
    /\ \A r \in Requests :
          Entered(r) =>
             /\ appState = "Serving"
             /\ pipeline = Some([lang_code |-> "en"])
             /\ Logged(<<"Model loaded successfully!", "">>)
             /\ ~LoadFailed

\* C1 witness: the construction failed and the process has exited.
C1_Witness ==
    /\ LoadFailed
    /\ appState = "Exited"
    /\ exitStatus = <<1>>

\* C2: a request that fails leaves the service serving with the same
\* pipeline handle and no exit status; a request fails only through its own
\* invocation of the pipeline (the pipeline raised, or yielded no segment),
\* never through an earlier request's failure; and the service never leaves
\* the serving state.
C2_Isolated ==
    /\ [](\A r \in Requests :
            req[r].pc = "raised" =>
               /\ appState = "Serving"
               /\ pipeline = Some([lang_code |-> "en"])
               /\ exitStatus = None
               /\ \/ req[r].error[1][2] = "model failure"
                  \/ req[r].error[1][2] = "" /\ req[r].text = <<>>)
    /\ [][appState = "Serving" => (appState' = "Serving" /\ pipeline' = pipeline)]_vars

\* C2 witness: a request that arrived after another request's failure was
\* logged has returned a result.
C2_Witness ==
    \E r, q \in Requests :
        /\ req[q].pc = "raised"
        /\ req[r].pc = "returned"
        /\ req[r].priorFailures >= 1
        /\ r > q

\* C5: a result returned for a non-empty text has sample rate 24000.
C5_SampleRate ==
    \A r \in Requests :
        (req[r].pc = "returned" /\ req[r].text # <<>>) =>
            /\ req[r].result # None
            /\ req[r].result[1].sample_rate = 24000

\* C5 witness: a non-empty text was synthesized and its result returned.
C5_Witness ==
    \E r \in Requests :
        /\ req[r].pc = "returned"
        /\ Len(req[r].text) >= 1
        /\ req[r].result # None

\* C6: a returned result holds the audio of the first segment, unchanged,
\* and exactly one element was taken from the generator; no invocation ever
\* takes more than one.
C6_FirstSegmentOnly ==
    \A r \in Requests :
        /\ req[r].generator # None => req[r].generator[1].consumed <= 1
        /\ req[r].pc = "returned" =>
              /\ req[r].generator[1].consumed = 1
              /\ req[r].text # <<>>
              /\ req[r].result[1].audio = FirstAudio(req[r].text)

\* C6 witness: a text of several segments, different from one another, was
\* synthesized.
C6_Witness ==
    \E r \in Requests :
        /\ req[r].pc = "returned"
        /\ Len(req[r].text) >= 2
        /\ req[r].text[1] # req[r].text[2]

\* C7: a failed request ends in the user-facing error whose message is the
\* fixed prefix followed by the exception's text, the same text has been
\* printed on the console, no result is returned, and the process is serving
\* with no exit status.
C7_FailureCaught ==
    \A r \in Requests :
        req[r].pc = "raised" =>
            /\ req[r].result = None
            /\ req[r].error # None
            /\ req[r].error[1][1] = "Failed to generate speech: "
            /\ Logged(<<"Error generating speech: ", req[r].error[1][2]>>)
            /\ appState = "Serving"
            /\ exitStatus = None

\* C7 witness: one request failed when the pipeline was invoked and another
\* when its first segment was taken.
C7_Witness ==
    \E r, q \in Requests :
        /\ req[r].pc = "raised" /\ req[r].generator = None
        /\ req[q].pc = "raised" /\ req[q].generator # None

\* C9: whatever the interleaving, a finished request's outcome is that of
\* its own text (its own generator, the first segment of its own text, or
\* its own failure), a step changes the state of one request only, and the
\* pipeline handle, once constructed, never changes.
C9_Independent ==
    /\ [](\A r \in Requests :
            /\ req[r].generator # None =>
                  req[r].generator[1].segments = Segments(req[r].text, "af_heart", 1)
            /\ req[r].pc = "called" => req[r].generator[1].consumed = 0
            /\ req[r].pc = "returned" =>
                  /\ req[r].text # <<>>
                  /\ req[r].result = Some([sample_rate |-> 24000,
                                           audio |-> FirstAudio(req[r].text)])
            /\ req[r].pc = "raised" =>
                  (req[r].error[1][2] = "" => req[r].text = <<>>))
    /\ [][\A r, q \in Requests : (req'[r] # req[r] /\ q # r) => req'[q] = req[q]]_vars
    /\ [][pipeline # None => pipeline' = pipeline]_vars

\* C9 witness: two requests with different texts are in flight together,
\* the later one has returned while the earlier one holds its generator.
C9_Witness ==
    \E r, q \in Requests :
        /\ q < r
        /\ req[q].pc = "called"
        /\ req[r].pc = "returned"
        /\ req[q].text # <<>>
        /\ req[q].text[1] # req[r].text[1]

\* C10: a finished request whose text yields no segment has not returned a
\* result: it ended in the user-facing error, and the process is serving.
C10_EmptySequence ==
    \A r \in Requests :
        (Finished(r) /\ Len(Segments(req[r].text, "af_heart", 1)) = 0) =>
            /\ req[r].pc = "raised"
            /\ req[r].result = None
            /\ req[r].error # None
            /\ req[r].error[1][1] = "Failed to generate speech: "
            /\ appState = "Serving"
            /\ exitStatus = None

\* C10 witness: the generator of an empty text was exhausted at the first
\* next() and the request ended in the error.
C10_Witness ==
    \E r \in Requests :
        /\ req[r].pc = "raised"
        /\ req[r].text = <<>>
        /\ req[r].generator # None
        /\ req[r].error = Some(<<"Failed to generate speech: ", "">>)

Resolved == fpc \in {"resolved", "returned", "done"}
\* What .env alone gives, read in the order of line 40.
FileToken == Or(dotenvFile[HF_TOKEN], dotenvFile[HF_HUB_TOKEN])
\* What the process environment alone gives, read in the order of line 40.
EnvToken == Or(procEnv[HF_TOKEN], procEnv[HF_HUB_TOKEN])

\* C3: when a (non-empty) token is given on the command line, it is the
\* resolved token and the one every call of snapshot_download receives,
\* whatever .env and the environment hold.
C3_CliTokenWins ==
    (Resolved /\ Truthy(argToken)) =>
        /\ token = argToken
        /\ \A i \in 1..Len(attempts) : attempts[i].token = argToken

\* C3 witness: the command line, .env and the environment give three
\* different tokens and the download was called.
C3_Witness ==
    /\ Truthy(argToken) /\ Truthy(FileToken) /\ Truthy(EnvToken)
    /\ argToken # FileToken /\ argToken # EnvToken /\ FileToken # EnvToken
    /\ Len(attempts) = 1

\* C4: with no token on the command line and a token both in .env and in
\* the environment, the token of .env is the one used; the environment's is
\* used only when .env gives none.
C4_FileBeatsEnv ==
    (Resolved /\ ~Truthy(argToken) /\ Truthy(FileToken) /\ Truthy(EnvToken)) =>
        token = FileToken

\* C8: snapshot_download is called at most once; when it failed, the error
\* line and the two guidance lines were printed, the function returned, and
\* the script ends with status 0.
C8_DownloadFailure ==
    /\ Len(attempts) <= 1
    /\ fpc \in {"start", "env_loaded", "resolved", "returned", "done"}
    /\ fpc \in {"returned", "done"} => Len(attempts) = 1
    /\ (Len(attempts) >= 1 /\ ~attempts[1].ok) =>
          /\ fpc \in {"returned", "done"}
          /\ Len(fconsole) = 4
          /\ fconsole[2] = "Error downloading model weights: "
          /\ fconsole[3] = "Please make sure your Hugging Face token is correct."
          /\ fconsole[4] = "You can get a token from: https://huggingface.co/settings/tokens"
    /\ fexit # None => (fpc = "done" /\ fexit = <<0>>)
    /\ fpc = "done" => fexit = <<0>>

\* C8 witness: the download failed and the script has ended.
C8_Witness ==
    /\ fpc = "done"
    /\ Len(attempts) = 1
    /\ ~attempts[1].ok
    /\ fexit = <<0>>

===========================================================================
